---- MODULE Spec2Model ----
(***************************************************************************)
(* Model of hyperseti/utils.py: the two decorators on_gpu and datwrapper.  *)
(* A behaviour is one or two calls of a decorated kernel.  Python objects  *)
(* are records tagged with their type; numpy arrays live in host memory    *)
(* and cupy arrays in device memory.                                       *)
(***************************************************************************)
EXTENDS Integers, Sequences, FiniteSets, TLC

\* Largest number of positional arguments of a call.
MaxArgs == 2
\* Largest length of a sequence returned by the kernel.
MaxOut == 2

(***************************************************************************)
(* Python values                                                           *)
(***************************************************************************)
None == [type |-> "NoneType"]
Str(s) == [type |-> "str", s |-> s]
Scalar(v) == [type |-> "float", v |-> v]
List(items) == [type |-> "list", items |-> items]
Dict(map) == [type |-> "dict", map |-> map]
\* An array: data names its contents, ndim = 0 is an unsized (zero-dimensional)
\* array, n is the length of the first axis when ndim >= 1.
NdArray(type, data, ndim, n) == [type |-> type, data |-> data, ndim |-> ndim, n |-> n]

isinstance(v, type) == v.type = type
IsBuffer(v) == isinstance(v, "np.ndarray") \/ isinstance(v, "cp.ndarray")

\* cp.asarray: host -> device copy; the contents and the shape are kept.
asarray(v) == [v EXCEPT !.type = "cp.ndarray"]
\* cp.asnumpy: device -> host copy.
asnumpy(v) == [v EXCEPT !.type = "np.ndarray"]

\* Python's len(): defined for sequences and for arrays with ndim >= 1;
\* a float and a zero-dimensional array raise TypeError.
HasLen(v) ==
    CASE isinstance(v, "list") -> TRUE
      [] IsBuffer(v) -> v.ndim >= 1
      [] OTHER -> FALSE
len(v) == IF isinstance(v, "list") THEN Len(v.items) ELSE v.n

Restrict(f, S) == [k \in S |-> f[k]]

(***************************************************************************)
(* The inputs of a call                                                    *)
(***************************************************************************)
func_name == "compute_something"

H == NdArray("np.ndarray", "x", 1, 2)
D == NdArray("cp.ndarray", "y", 1, 2)
S == Scalar(1)
H0 == NdArray("np.ndarray", "s", 0, 0)
D0 == NdArray("cp.ndarray", "s", 0, 0)
H1 == NdArray("np.ndarray", "z", 1, 1)

TimeAxis == [units |-> 2, val_step |-> 3, time_start |-> 100]
FrequencyAxis == [units |-> 5, val_step |-> 7, val_start |-> 11]
AttrsChoices == { ("source" :> 4), ("source" :> 4) @@ ("dt" :> 9) }
DataArray(data, attrs) ==
    [type |-> "DataArray", data |-> data, attrs |-> attrs,
     time |-> TimeAxis, frequency |-> FrequencyAxis]
DataArrays == { DataArray(b, a) : b \in {H, D}, a \in AttrsChoices }

Plain == {H, D, S}
FirstArgs == Plain \cup DataArrays
ArgsChoices ==
    { <<>> } \cup
    UNION { { <<a>> \o t : a \in FirstArgs, t \in [1..(m - 1) -> Plain] } : m \in 1..MaxArgs }

EmptyKw == [k \in {} |-> None]
ReturnSpaceChoices ==
    { EmptyKw } \cup { ("return_space" :> Str(s)) : s \in {"cpu", "gpu", "tpu"} }
ExtraChoices ==
    { EmptyKw, ("threshold" :> H), ("metadata" :> Dict(("source" :> 8))) }
KwargsChoices == { r @@ e : r \in ReturnSpaceChoices, e \in ExtraChoices }

\* Kernels: one that returns a fixed value, and one that returns its first
\* positional argument when that is an array.
Outputs ==
    {S, H, D, H0, D0, H1} \cup
    { List(t) : t \in UNION { [1..m -> Plain] : m \in 0..MaxOut } }
Kernels == { [mode |-> "const", out |-> o] : o \in Outputs } \cup
           { [mode |-> "echo", out |-> S] }
Kernel(k, a, kw) ==
    IF k.mode = "echo" /\ Len(a) >= 1 /\ IsBuffer(a[1]) THEN a[1] ELSE k.out

Plans == { << <<"on_gpu">> >>, << <<"datwrapper">> >>,
           << <<"on_gpu", "datwrapper">>, <<"datwrapper", "on_gpu">> >> }

(***************************************************************************)
(* on_gpu.inner                                                            *)
(***************************************************************************)
Info(what, i) == [ev |-> "info", name |-> func_name, what |-> what, idx |-> i]
Convert(what, i, to) == [ev |-> "convert", name |-> to, what |-> what, idx |-> i]
Debug == [ev |-> "debug", name |-> func_name, what |-> "return_space", idx |-> -1]
Call == [ev |-> "call", name |-> func_name, what |-> "func", idx |-> -1]

\* logger.info(...) followed by the copy.
ConversionEventsSwapped(what, i, to) == << Convert(what, i, to), Info(what, i) >>
ConversionEvents(what, i, to) == << Info(what, i), Convert(what, i, to) >>

\* Lines 35-37: a numpy argument is copied to the device.
ConvertArgNever(arg) == arg
ConvertArg(arg) == IF isinstance(arg, "np.ndarray") THEN asarray(arg) ELSE arg

\* Line 43: kwargs.pop('return_space').
PopKept(kw) == kw
Pop(kw) == Restrict(kw, DOMAIN kw \ {"return_space"})

\* Line 44: assert return_space in ('cpu', 'gpu').
AssertAnything(rs) == TRUE
AssertReturnSpace(rs) == rs \in {Str("cpu"), Str("gpu")}

\* Lines 48 and 63, once len(output) has been evaluated.
IsSingleBufferOnly(out) == IsBuffer(out)
IsSingle(out) == len(out) = 1 \/ IsBuffer(out)

\* Lines 47, 62, 76: which branch the result takes.
NormalisesAlways(rs) == TRUE
Normalises(rs) == rs = Str("gpu") \/ rs = Str("cpu")

\* The array type that is copied for a requested space, and the copy.
SourceType(rs) == IF rs = Str("gpu") THEN "np.ndarray" ELSE "cp.ndarray"
Target(rs) == IF rs = Str("gpu") THEN "cupy" ELSE "numpy"
ToSpace(rs, v) == IF rs = Str("gpu") THEN asarray(v) ELSE asnumpy(v)

(***************************************************************************)
(* datwrapper.inner                                                        *)
(***************************************************************************)
\* Lines 98-106.
MetadataDfFromStart(d) ==
    ("dt" :> d.time.units * d.time.val_step) @@
    ("t0" :> d.time.time_start) @@
    ("df" :> d.frequency.units * d.frequency.val_start) @@
    ("f0" :> d.frequency.units * d.frequency.val_start) @@
    d.attrs
Metadata(d) ==
    ("dt" :> d.time.units * d.time.val_step) @@
    ("t0" :> d.time.time_start) @@
    ("df" :> d.frequency.units * d.frequency.val_step) @@
    ("f0" :> d.frequency.units * d.frequency.val_start) @@
    d.attrs

\* Lines 95-109: the positional arguments handed on.
DatwrapperArgs(a) ==
    IF isinstance(a[1], "DataArray") THEN <<a[1].data>> \o Tail(a) ELSE a

\* Lines 95-111: the keyword arguments handed on.
DatwrapperKwargsAlways(a, kw) ==
    IF isinstance(a[1], "DataArray")
    THEN ("metadata" :> Dict(Metadata(a[1]))) @@ kw
    ELSE ("metadata" :> Dict(EmptyKw)) @@ kw
DatwrapperKwargs(a, kw) ==
    IF isinstance(a[1], "DataArray")
    THEN ("metadata" :> Dict(Metadata(a[1]))) @@ kw
    ELSE kw

(***************************************************************************)
(* State                                                                   *)
(***************************************************************************)
VARIABLES
    plan,          \* the decorator stacks (outermost first) called in turn
    cur,           \* index in plan of the call in progress
    args0,         \* the caller's positional arguments
    kwargs0,       \* the caller's keyword arguments
    func,          \* the decorated kernel
    d_attrs,       \* contents of the attrs mapping of the caller's DataArray
    depth,         \* the frame in control: 1..Len(stack); Len(stack)+1 is func
    pc,
    args,          \* *args of the frame in control
    kwargs,        \* **kwargs of the frame in control
    new_args,      \* on_gpu.inner local
    idx,           \* loop index (Python's idx + 1)
    return_space,  \* on_gpu.inner local
    output,
    new_output,    \* on_gpu.inner local
    events,        \* log events, copies and the kernel invocation, in order
    kcalls,        \* what func was invoked with, and what it returned
    err,
    history        \* the finished calls of the plan

inputs == <<plan, args0, kwargs0, func, d_attrs>>
vars == <<plan, cur, args0, kwargs0, func, d_attrs, depth, pc, args, kwargs, new_args,
          idx, return_space, output, new_output, events, kcalls, err, history>>

stack == plan[cur]
NoResult == [type |-> "no result"]

\* Where control goes when frame d of stack s is entered.
PcOf(s, d) == IF d > Len(s) THEN "func" ELSE s[d]

Init ==
    /\ plan \in Plans
    /\ cur = 1
    /\ args0 \in ArgsChoices
    /\ kwargs0 \in KwargsChoices
    /\ func \in Kernels
    /\ d_attrs = IF Len(args0) >= 1 /\ isinstance(args0[1], "DataArray")
                 THEN args0[1].attrs ELSE EmptyKw
    /\ depth = 1
    /\ pc = PcOf(plan[1], 1)
    /\ args = args0
    /\ kwargs = kwargs0
    /\ new_args = <<>>
    /\ idx = 1
    /\ return_space = None
    /\ output = NoResult
    /\ new_output = <<>>
    /\ events = <<>>
    /\ kcalls = <<>>
    /\ err = "none"
    /\ history = <<>>

\* Lines 33-38: one iteration of the loop over the positional arguments.
OnGpuArgLoop ==
    /\ pc = "on_gpu"
    /\ idx <= Len(args)
    /\ new_args' = Append(new_args, ConvertArg(args[idx]))
    /\ events' = IF isinstance(args[idx], "np.ndarray")
                 THEN events \o ConversionEvents("arg", idx - 1, "cupy")
                 ELSE events
    /\ idx' = idx + 1
    /\ UNCHANGED <<inputs, cur, depth, pc, args, kwargs, return_space, output,
                   new_output, kcalls, err, history>>

\* Lines 40-45: return_space is taken out of kwargs and checked, then the
\* decorated function is called with the new arguments.
OnGpuReturnSpace ==
    /\ pc = "on_gpu"
    /\ idx > Len(args)
    /\ IF "return_space" \in DOMAIN kwargs
       THEN /\ return_space' = kwargs["return_space"]
            /\ events' = Append(events, Debug)
            /\ IF AssertReturnSpace(kwargs["return_space"])
               THEN /\ kwargs' = Pop(kwargs)
                    /\ args' = new_args
                    /\ depth' = depth + 1
                    /\ pc' = PcOf(stack, depth + 1)
                    /\ err' = err
               ELSE /\ pc' = "raised"
                    /\ err' = "AssertionError"
                    /\ UNCHANGED <<args, kwargs, depth>>
       ELSE /\ return_space' = None
            /\ args' = new_args
            /\ depth' = depth + 1
            /\ pc' = PcOf(stack, depth + 1)
            /\ UNCHANGED <<kwargs, events, err>>
    /\ idx' = 1
    /\ UNCHANGED <<inputs, cur, new_args, output, new_output, kcalls, history>>

\* Lines 94-112: datwrapper.inner up to the call of the decorated function.
DatwrapperInner ==
    /\ pc = "datwrapper"
    /\ IF Len(args) = 0
       THEN /\ pc' = "raised"
            /\ err' = "IndexError"
            /\ UNCHANGED <<args, kwargs, depth>>
       ELSE /\ args' = DatwrapperArgs(args)
            /\ kwargs' = DatwrapperKwargs(args, kwargs)
            /\ depth' = depth + 1
            /\ pc' = PcOf(stack, depth + 1)
            /\ err' = err
    /\ UNCHANGED <<inputs, cur, new_args, idx, return_space, output, new_output,
                   events, kcalls, history>>

\* The decorated kernel runs (lines 45 and 112 of the innermost decorator).
FuncCall ==
    /\ pc = "func"
    /\ output' = Kernel(func, args, kwargs)
    /\ kcalls' = Append(kcalls, [args |-> args, kwargs |-> kwargs,
                                 out |-> Kernel(func, args, kwargs)])
    /\ events' = Append(events, Call)
    /\ depth' = Len(stack)
    /\ pc' = "return"
    /\ UNCHANGED <<inputs, cur, args, kwargs, new_args, idx, return_space,
                   new_output, err, history>>

\* Line 113: datwrapper.inner returns what the decorated function returned.
DatwrapperReturn ==
    /\ pc = "return"
    /\ depth >= 1
    /\ stack[depth] = "datwrapper"
    /\ depth' = depth - 1
    /\ UNCHANGED <<inputs, cur, pc, args, kwargs, new_args, idx, return_space, output,
                   new_output, events, kcalls, err, history>>

\* Lines 47-52, 62-67, 76-77: the result as a whole.
OnGpuOutput ==
    /\ pc = "return"
    /\ depth >= 1
    /\ stack[depth] = "on_gpu"
    /\ IF Normalises(return_space)
       THEN IF ~HasLen(output)
            THEN /\ pc' = "raised"
                 /\ err' = "TypeError"
                 /\ UNCHANGED <<output, events, depth>>
            ELSE IF IsSingle(output)
                 THEN /\ IF isinstance(output, SourceType(return_space))
                         THEN /\ events' = events \o ConversionEvents("output", -1,
                                                        Target(return_space))
                              /\ output' = ToSpace(return_space, output)
                         ELSE UNCHANGED <<events, output>>
                      /\ depth' = depth - 1
                      /\ UNCHANGED <<pc, err>>
                 ELSE /\ pc' = "on_gpu_output"
                      /\ UNCHANGED <<output, events, depth, err>>
       ELSE /\ depth' = depth - 1
            /\ UNCHANGED <<pc, err, output, events>>
    /\ idx' = 1
    /\ new_output' = <<>>
    /\ UNCHANGED <<inputs, cur, args, kwargs, new_args, return_space, kcalls, history>>

\* Lines 54-60 and 69-75: one iteration of the loop over the result's items,
\* and the return of new_output.
OnGpuOutputLoop ==
    /\ pc = "on_gpu_output"
    /\ IF idx <= Len(output.items)
       THEN /\ IF isinstance(output.items[idx], SourceType(return_space))
               THEN /\ events' = events \o ConversionEvents("output", idx - 1,
                                              Target(return_space))
                    /\ new_output' = Append(new_output,
                                            ToSpace(return_space, output.items[idx]))
               ELSE /\ events' = events
                    /\ new_output' = Append(new_output, output.items[idx])
            /\ idx' = idx + 1
            /\ UNCHANGED <<output, depth, pc>>
       ELSE /\ output' = List(new_output)
            /\ depth' = depth - 1
            /\ pc' = "return"
            /\ UNCHANGED <<events, new_output, idx>>
    /\ UNCHANGED <<inputs, cur, args, kwargs, new_args, return_space, kcalls, err,
                   history>>

\* The outermost frame has returned, or an exception has left it (nothing
\* catches): the caller has the outcome, and makes the next call of the plan.
Finished ==
    /\ \/ pc = "return" /\ depth = 0
       \/ pc = "raised"
    /\ history' = Append(history,
                         [stack |-> stack,
                          kcalls |-> kcalls,
                          result |-> IF pc = "raised" THEN NoResult ELSE output,
                          err |-> err,
                          events |-> events])
    /\ IF cur < Len(plan)
       THEN /\ cur' = cur + 1
            /\ depth' = 1
            /\ pc' = PcOf(plan[cur + 1], 1)
            /\ args' = args0
            /\ kwargs' = kwargs0
       ELSE /\ pc' = "done"
            /\ depth' = 0
            /\ UNCHANGED <<cur, args, kwargs>>
    /\ new_args' = <<>>
    /\ idx' = 1
    /\ return_space' = None
    /\ output' = NoResult
    /\ new_output' = <<>>
    /\ events' = <<>>
    /\ kcalls' = <<>>
    /\ err' = "none"
    /\ UNCHANGED inputs

Next ==
    \/ OnGpuArgLoop
    \/ OnGpuReturnSpace
    \/ DatwrapperInner
    \/ FuncCall
    \/ DatwrapperReturn
    \/ OnGpuOutput
    \/ OnGpuOutputLoop
    \/ Finished

Spec == Init /\ [][Next]_vars

(***************************************************************************)
(* Properties                                                              *)
(***************************************************************************)
OnGpuPlan == << <<"on_gpu">> >>
DatwrapperPlan == << <<"datwrapper">> >>
BothOrders == << <<"on_gpu", "datwrapper">>, <<"datwrapper", "on_gpu">> >>

Requested == "return_space" \in DOMAIN kwargs0 /\ kwargs0["return_space"].s \in {"cpu", "gpu"}
\* The array type resident in the requested space, and the one in the other.
Resident == IF kwargs0["return_space"].s = "gpu" THEN "cp.ndarray" ELSE "np.ndarray"
Other == IF kwargs0["return_space"].s = "gpu" THEN "np.ndarray" ELSE "cp.ndarray"
InSpace(v, type) == [v EXCEPT !.type = type]
NoLength(v) == isinstance(v, "float") \/ (IsBuffer(v) /\ v.ndim = 0)
FirstIsDataArray == Len(args0) >= 1 /\ isinstance(args0[1], "DataArray")
\* The events of E after the kernel invocation.
AfterCall(E) ==
    LET c == CHOOSE i \in 1..Len(E) : E[i].ev = "call"
    IN  SubSeq(E, c + 1, Len(E))
Computed == {"dt", "t0", "df", "f0"}
\* The memory spaces of a result: the types of the value or of its items.
SpaceOf(v) == IF isinstance(v, "list")
              THEN [i \in 1..Len(v.items) |-> v.items[i].type]
              ELSE <<v.type>>

\* C1: a call of an on_gpu-wrapped kernel with return_space 'cpu' or 'gpu'
\* that returns a result returns every Buffer of the result (the result itself,
\* or each item of a sequence of any length >= 1) in the requested space, and
\* every non-Buffer item unchanged in value and position.
C1_ResultInRequestedSpace ==
    (plan = OnGpuPlan /\ Requested /\ Len(history) = 1 /\ history[1].err = "none") =>
        LET r == history[1].result
            out == history[1].kcalls[1].out
        IN  IF isinstance(out, "list")
            THEN /\ isinstance(r, "list")
                 /\ Len(r.items) = Len(out.items)
                 /\ \A i \in 1..Len(out.items) :
                        IF IsBuffer(out.items[i])
                        THEN r.items[i] = InSpace(out.items[i], Resident)
                        ELSE r.items[i] = out.items[i]
            ELSE IF IsBuffer(out) THEN r = InSpace(out, Resident) ELSE r = out

\* C2: the kernel under on_gpu receives positional arguments of the same count
\* and order, each host array replaced by a device copy and every other
\* argument unchanged, and the caller's keyword arguments without return_space
\* (keyword values are not converted).
C2_KernelArguments ==
    plan = OnGpuPlan =>
        \A c \in 1..Len(kcalls) :
            /\ Len(kcalls[c].args) = Len(args0)
            /\ \A i \in 1..Len(args0) :
                   kcalls[c].args[i] =
                       IF isinstance(args0[i], "np.ndarray")
                       THEN InSpace(args0[i], "cp.ndarray")
                       ELSE args0[i]
            /\ DOMAIN kcalls[c].kwargs = DOMAIN kwargs0 \ {"return_space"}
            /\ \A k \in DOMAIN kcalls[c].kwargs : kcalls[c].kwargs[k] = kwargs0[k]
C2_Witness ==
    /\ plan = OnGpuPlan
    /\ Len(kcalls) = 1
    /\ args0 = <<H, S>>
    /\ DOMAIN kwargs0 = {"return_space", "threshold"}

\* C3: without a return_space keyword the on_gpu wrapper returns exactly what
\* the kernel returned: no length or type test that could fail, no conversion.
C3_VerbatimWithoutReturnSpace ==
    (plan = OnGpuPlan /\ "return_space" \notin DOMAIN kwargs0) =>
        /\ pc \notin {"raised", "on_gpu_output"}
        /\ \A j \in 1..Len(history) :
               /\ history[j].err = "none"
               /\ Len(history[j].kcalls) = 1
               /\ history[j].result = history[j].kcalls[1].out
               /\ AfterCall(history[j].events) = <<>>
C3_Witness ==
    /\ plan = OnGpuPlan
    /\ "return_space" \notin DOMAIN kwargs0
    /\ Len(history) = 1
    /\ history[1].result = H0

\* C4: a return_space other than 'cpu' and 'gpu' fails with an assertion error
\* before the kernel is invoked: the kernel does not run, the result is not
\* normalized and nothing is returned.
C4_InvalidReturnSpace ==
    (plan = OnGpuPlan /\ "return_space" \in DOMAIN kwargs0 /\ ~Requested) =>
        /\ kcalls = <<>>
        /\ pc \notin {"func", "return", "on_gpu_output"}
        /\ output = NoResult
        /\ \A i \in 1..Len(events) : events[i].ev # "call"
        /\ \A j \in 1..Len(history) :
               /\ history[j].err = "AssertionError"
               /\ history[j].result = NoResult
               /\ history[j].kcalls = <<>>
C4_Witness ==
    /\ plan = OnGpuPlan
    /\ "return_space" \in DOMAIN kwargs0
    /\ ~Requested
    /\ Len(history) = 1
    /\ args0 = <<H>>

\* C5: when the kernel returns a value with no length (a bare scalar or a
\* zero-dimensional Buffer), a call with return_space 'cpu' or 'gpu' completes
\* without error and returns the value in the requested space.
C5_UnsizedResult ==
    (plan = OnGpuPlan /\ Requested /\ Len(history) = 1
        /\ Len(history[1].kcalls) = 1 /\ NoLength(history[1].kcalls[1].out)) =>
        /\ history[1].err = "none"
        /\ history[1].result =
               IF IsBuffer(history[1].kcalls[1].out)
               THEN InSpace(history[1].kcalls[1].out, Resident)
               ELSE history[1].kcalls[1].out

\* What C6 says of the kernel's invocation apart from the attrs entries.
C6_Invocation(h) ==
    /\ h.err = "none"
    /\ Len(h.kcalls) = 1
    /\ h.kcalls[1].args = <<args0[1].data>> \o Tail(args0)
    /\ DOMAIN h.kcalls[1].kwargs = DOMAIN kwargs0 \cup {"metadata"}
    /\ \A k \in DOMAIN kwargs0 \ {"metadata"} : h.kcalls[1].kwargs[k] = kwargs0[k]
    /\ isinstance(h.kcalls[1].kwargs["metadata"], "dict")
    /\ LET m == h.kcalls[1].kwargs["metadata"].map
           d == args0[1]
       IN  /\ Computed \subseteq DOMAIN m
           /\ m["dt"] = d.time.units * d.time.val_step
           /\ m["t0"] = d.time.time_start
           /\ m["df"] = d.frequency.units * d.frequency.val_step
           /\ m["f0"] = d.frequency.units * d.frequency.val_start
    /\ d_attrs = args0[1].attrs

\* C6 as stated: datwrapper with a DataArray d first invokes the kernel once
\* with d.data first, the other arguments unchanged, and a metadata keyword
\* holding every entry of d.attrs (same key, same value) plus dt, t0, df, f0;
\* d.attrs is not modified.
C6_MetadataHoldsEveryAttr ==
    (plan = DatwrapperPlan /\ FirstIsDataArray) =>
        \A j \in 1..Len(history) :
            /\ C6_Invocation(history[j])
            /\ \A a \in DOMAIN args0[1].attrs :
                   /\ a \in DOMAIN history[j].kcalls[1].kwargs["metadata"].map
                   /\ history[j].kcalls[1].kwargs["metadata"].map[a] = args0[1].attrs[a]

\* C6 amended: as C6, with the metadata holding every entry of d.attrs whose
\* key is none of dt, t0, df, f0, and no key beyond those of d.attrs and these
\* four; under these four keys it holds the computed values.
C6_MetadataHoldsOtherAttrs ==
    (plan = DatwrapperPlan /\ FirstIsDataArray) =>
        \A j \in 1..Len(history) :
            /\ C6_Invocation(history[j])
            /\ DOMAIN history[j].kcalls[1].kwargs["metadata"].map =
                   DOMAIN args0[1].attrs \cup Computed
            /\ \A a \in DOMAIN args0[1].attrs \ Computed :
                   history[j].kcalls[1].kwargs["metadata"].map[a] = args0[1].attrs[a]
C6_Witness ==
    /\ plan = DatwrapperPlan
    /\ FirstIsDataArray
    /\ Len(history) = 1
    /\ "dt" \in DOMAIN args0[1].attrs
    /\ Len(args0) = 2
    /\ "metadata" \in DOMAIN kwargs0

\* C7: datwrapper with a first positional argument that is no DataArray
\* invokes the kernel with exactly the caller's positional and keyword
\* arguments; no metadata keyword is added.
C7_OtherFirstArgument ==
    (plan = DatwrapperPlan /\ Len(args0) >= 1 /\ ~FirstIsDataArray) =>
        /\ pc # "raised"
        /\ \A c \in 1..Len(kcalls) :
               kcalls[c].args = args0 /\ kcalls[c].kwargs = kwargs0
        /\ \A j \in 1..Len(history) :
               /\ history[j].err = "none"
               /\ Len(history[j].kcalls) = 1
               /\ history[j].kcalls[1].args = args0
               /\ history[j].kcalls[1].kwargs = kwargs0
C7_Witness ==
    /\ plan = DatwrapperPlan
    /\ Len(history) = 1
    /\ args0 = <<H, D>>
    /\ DOMAIN kwargs0 = {"return_space"}

\* The kernel's invocations under the two orders, without what it returned.
Invocations(h) == [c \in 1..Len(h.kcalls) |->
                      [args |-> h.kcalls[c].args, kwargs |-> h.kcalls[c].kwargs]]

\* C8 as stated: on_gpu(datwrapper(k)) and datwrapper(on_gpu(k)), called with
\* the same DataArray first argument and the same return_space, invoke k with
\* the same arguments and return results in the same memory space.
C8_OrdersAgree ==
    (plan = BothOrders /\ FirstIsDataArray /\ Len(history) = 2) =>
        /\ Invocations(history[1]) = Invocations(history[2])
        /\ history[1].err = history[2].err
        /\ SpaceOf(history[1].result) = SpaceOf(history[2].result)

\* C8 amended: the two orders agree when d.data is device-resident.  In every
\* case k is invoked under both or under neither, with the same metadata
\* keyword and the same later arguments; its first argument is d.data itself
\* under on_gpu(datwrapper(k)) and d.data in device memory under
\* datwrapper(on_gpu(k)).
C8_OrdersAgreeOnDeviceData ==
    (plan = BothOrders /\ FirstIsDataArray /\ Len(history) = 2) =>
        /\ Len(history[1].kcalls) = Len(history[2].kcalls)
        /\ \A c \in 1..Len(history[1].kcalls) :
               /\ history[1].kcalls[c].kwargs = history[2].kcalls[c].kwargs
               /\ Tail(history[1].kcalls[c].args) = Tail(history[2].kcalls[c].args)
               /\ history[1].kcalls[c].args[1] = args0[1].data
               /\ history[2].kcalls[c].args[1] = InSpace(args0[1].data, "cp.ndarray")
        /\ isinstance(args0[1].data, "cp.ndarray") =>
               /\ Invocations(history[1]) = Invocations(history[2])
               /\ history[1].err = history[2].err
               /\ history[1].result = history[2].result
C8_Witness ==
    /\ plan = BothOrders
    /\ FirstIsDataArray
    /\ Len(history) = 2
    /\ isinstance(args0[1].data, "np.ndarray")
    /\ Len(history[2].kcalls) = 1
    /\ Requested

Where(E, ev) == { i \in 1..Len(E) : E[i].ev = ev }
\* The Python indices E records conversions of, for arguments or results.
Converted(E, what) == { E[i].idx : i \in { c \in Where(E, "convert") : E[c].what = what } }

\* C10: in a call under on_gpu, host arguments are converted in ascending
\* index before the single kernel invocation, result items in ascending index
\* after it, and each conversion comes with exactly one info event, emitted
\* immediately before it, naming the kernel and the index; a value already in
\* the target space gives no event.
C10_EventOrder ==
    (plan = OnGpuPlan /\ pc # "done") =>
        LET E == events
            calls == Where(E, "call")
            convs == Where(E, "convert")
            infos == Where(E, "info")
        IN  /\ Cardinality(calls) <= 1
            /\ Cardinality(calls) = Len(kcalls)
            /\ \A i \in convs :
                   /\ i > 1
                   /\ E[i - 1] = [ev |-> "info", name |-> func_name,
                                  what |-> E[i].what, idx |-> E[i].idx]
            /\ \A i \in infos : i < Len(E) /\ E[i + 1].ev = "convert"
            /\ \A i \in convs :
                   /\ E[i].what \in {"arg", "output"}
                   /\ E[i].what = "arg" => (E[i].name = "cupy" /\ \A c \in calls : i < c)
                   /\ E[i].what = "output" => (Requested /\ \E c \in calls : c < i)
            /\ \A i, j \in convs :
                   (i < j /\ E[i].what = E[j].what) => E[i].idx < E[j].idx
            /\ Converted(E, "arg") =
                   { a - 1 : a \in { b \in 1..Len(args0) :
                                       /\ isinstance(args0[b], "np.ndarray")
                                       /\ (pc = "on_gpu" => b < idx) } }
            /\ (pc = "return" /\ depth = 0) =>
                   Converted(E, "output") =
                       IF ~Requested THEN {}
                       ELSE IF IsBuffer(kcalls[1].out)
                       THEN (IF isinstance(kcalls[1].out, Other) THEN {-1} ELSE {})
                       ELSE IF Len(kcalls[1].out.items) = 1 THEN {}
                       ELSE { a - 1 : a \in { b \in 1..Len(kcalls[1].out.items) :
                                                isinstance(kcalls[1].out.items[b], Other) } }
C10_Witness ==
    /\ plan = OnGpuPlan
    /\ pc = "return"
    /\ depth = 0
    /\ args0 = <<H, H>>
    /\ Requested
    /\ kwargs0["return_space"].s = "cpu"
    /\ kcalls[1].out = List(<<D, D>>)

====
